---- MODULE Spec2Model ----
(***************************************************************************)
(* Tournament orchestration of chipengine: TournamentManager               *)
(* (core/tournament.py) driven by the tournament routes and the            *)
(* background scheduling loop execute_tournament_games                     *)
(* (api/routes/tournaments.py).  One tournament is modelled; the records   *)
(* are the rows the manager's session reads and writes.                    *)
(***************************************************************************)
EXTENDS Integers, Sequences, FiniteSets, TLC

VARIABLES
    tournament,     \* the Tournament row (status "absent" before create)
    participants,   \* TournamentParticipant rows, in registration order
    games,          \* Game rows with their two Player rows, in creation order
    loop,           \* execute_tournament_games: position and local variables
    ret,            \* the last operation called and how it returned
    calls,          \* calls of other workers in flight, each in its own session
    rps_game        \* a RockPaperScissorsGame a client of the engine drives

vars == <<tournament, participants, games, loop, ret, calls, rps_game>>

----------------------------------------------------------------------------
(* Bounds of the model *)

MaxBots == 3        \* bots in the Bot table
MaxRounds == 3      \* highest round number the model lets advance schedule
ByeBots == 5        \* participants of the tournament of SpecBye
BracketBots == 2    \* max_participants of the tournament of SpecBracket
CapBots == 2        \* participants of the tournament of SpecMoveCap
RaceBots == 3       \* participants of the tournaments of the race specifications
RaceCalls == 2      \* calls in flight in the race specifications
EngineRounds == 2   \* highest total_rounds of the game of SpecEngine
ReplayBots == 2     \* participants of the tournament of SpecReplay

----------------------------------------------------------------------------
(* Values *)

None == 0                           \* Python None for a seed, a rank or a bot id
NoMax == -1                         \* max_participants = None
BotIds == 1..MaxBots                \* ids of the rows of the Bot table
UnknownBot == MaxBots + 1           \* an id with no Bot row

\* TournamentFormat, database/models.py
TournamentFormat ==
    {"single_elimination", "double_elimination", "round_robin", "swiss"}

\* format strings a create request may carry
RequestFormats == {"single_elimination", "round_robin", "double_elimination", "knockout"}

\* game_manager.game_registry maps "rps" and "rock_paper_scissors" to the
\* reference engine; "custom" stands for any further BaseGame subclass put
\* into the registry (the else branch of execute_game constructs it).
game_registry == {"rps", "rock_paper_scissors", "custom"}

\* game_type strings a create request may carry
RequestGameTypes == {"rps", "custom", "chess"}

\* max_participants values a create request may carry
RequestMaxParticipants == {NoMax, 2}

\* max_participants values of the requests of SpecRegistration
RegistrationMaxParticipants == {NoMax, 0, 1, 2}

\* Python truth value of an Optional[int]
Truthy(x) == x # NoMax /\ x # 0

\* TournamentParticipant(tournament_id, bot_id) with the column defaults
NewParticipant(bot_id) ==
    [bot_id |-> bot_id, seed |-> None, final_rank |-> None,
     wins |-> 0, losses |-> 0, draws |-> 0,
     games_played |-> 0, score |-> 0, eliminated |-> FALSE]

\* Game(...) plus its Player rows, as _create_tournament_game builds them
NewGame(bot_ids, round_number) ==
    [round_number |-> round_number, status |-> "waiting",
     players |-> bot_ids, winner_id |-> None]

Range(s) == {s[i] : i \in DOMAIN s}

\* index of the participant row of a bot (0 when the bot has no row)
ParticipantIndex(ps, bot_id) ==
    IF \E i \in DOMAIN ps : ps[i].bot_id = bot_id
    THEN CHOOSE i \in DOMAIN ps : ps[i].bot_id = bot_id
    ELSE 0

\* the orders random.shuffle can leave a list of n elements in
Shuffles(n) ==
    {f \in [1..n -> 1..n] : \A i, j \in 1..n : i # j => f[i] # f[j]}

----------------------------------------------------------------------------
(* Initial state: the tables are empty, no scheduling task exists *)

IdleLoop == [pc |-> "idle", waiting_games |-> <<>>]

\* no call of another worker is in flight
NoCalls == <<>>

\* no RockPaperScissorsGame has been constructed
NoGame == [round_number |-> 0]

Init ==
    /\ rps_game = NoGame
    /\ tournament = [status |-> "absent", format |-> "single_elimination",
                     game_type |-> "rps", max_participants |-> NoMax]
    /\ participants = <<>>
    /\ games = <<>>
    /\ loop = IdleLoop
    /\ ret = [op |-> "none", result |-> "none"]
    /\ calls = NoCalls

----------------------------------------------------------------------------
(* create: POST /api/tournaments and TournamentManager.create_tournament *)

\* TournamentFormat(request.format) succeeds for every member of the enum
FormatAccepted(format) == format \in TournamentFormat

CreateTournament(format, game_type, max_participants) ==
    /\ UNCHANGED rps_game
    /\ tournament.status = "absent"
    /\ IF FormatAccepted(format)
       THEN /\ tournament' = [status |-> "registration_open", format |-> format,
                              game_type |-> game_type,
                              max_participants |-> max_participants]
            /\ ret' = [op |-> "create", result |-> "ok"]
       ELSE /\ ret' = [op |-> "create", result |-> "error"]
            /\ UNCHANGED tournament
    /\ UNCHANGED <<participants, games, loop, calls>>

----------------------------------------------------------------------------
(* join: TournamentManager.join_tournament *)

JoinError_NoDuplicateCheck(bot_id) ==
    IF tournament.status = "absent" THEN "NotFound"
    ELSE IF tournament.status # "registration_open" THEN "InvalidState"
    ELSE IF bot_id \notin BotIds THEN "NotFound"
    ELSE IF Truthy(tournament.max_participants)
            /\ Len(participants) >= tournament.max_participants THEN "Full"
    ELSE "none"

JoinError(bot_id) ==
    IF tournament.status = "absent" THEN "NotFound"
    ELSE IF tournament.status # "registration_open" THEN "InvalidState"
    ELSE IF bot_id \notin BotIds THEN "NotFound"
    ELSE IF ParticipantIndex(participants, bot_id) # 0 THEN "AlreadyRegistered"
    ELSE IF Truthy(tournament.max_participants)
            /\ Len(participants) >= tournament.max_participants THEN "Full"
    ELSE "none"

JoinTournament(bot_id) ==
    /\ UNCHANGED rps_game
    /\ IF JoinError(bot_id) = "none"
       THEN /\ participants' = Append(participants, NewParticipant(bot_id))
            /\ ret' = [op |-> "join", result |-> "ok"]
       ELSE /\ ret' = [op |-> "join", result |-> JoinError(bot_id)]
            /\ UNCHANGED participants
    /\ UNCHANGED <<tournament, games, loop, calls>>

\* Bot ids are opaque: the bots register in the order of their ids.
JoinInputs ==
    {b \in BotIds : b <= Len(participants) + 1} \cup {UnknownBot}

----------------------------------------------------------------------------
(* Round generation *)

\* query(TournamentParticipant).filter(eliminated == False).order_by(seed):
\* the indices of the rows in S, by ascending seed
RECURSIVE OrderBySeed(_, _)
OrderBySeed(ps, S) ==
    IF S = {} THEN <<>>
    ELSE LET i == CHOOSE i \in S :
                    \A j \in S : ps[i].seed < ps[j].seed
                                 \/ (ps[i].seed = ps[j].seed /\ i <= j)
         IN  <<i>> \o OrderBySeed(ps, S \ {i})

\* the query without its filter on eliminated
ActiveParticipants_All(ps) == DOMAIN ps

ActiveParticipants(ps) == {i \in DOMAIN ps : ~ps[i].eliminated}

\* the participant of a round that gets the bye: participants[-1] when the
\* number of active participants is odd (0 when there is none)
ByeParticipant(order) ==
    IF Len(order) % 2 = 1 THEN order[Len(order)] ELSE 0

\* the bye credited like a match won
CreditBye_AsMatchWon(ps, bye) ==
    [i \in DOMAIN ps |->
        IF i = bye
        THEN [ps[i] EXCEPT !.wins = @ + 1, !.games_played = @ + 1]
        ELSE IF i = bye - 1 THEN [ps[i] EXCEPT !.losses = @ + 1]
        ELSE ps[i]]

\* the bye credited as a win without a game played
CreditBye_WinOnly(ps, bye) ==
    [i \in DOMAIN ps |->
        IF i = bye THEN [ps[i] EXCEPT !.wins = @ + 1] ELSE ps[i]]

\* the rows after the bye of a round has been credited
CreditBye(ps, bye) ==
    [i \in DOMAIN ps |->
        IF i = bye
        THEN [ps[i] EXCEPT !.wins = @ + 1, !.games_played = @ + 1]
        ELSE ps[i]]

\* _schedule_single_elimination_round: the games it creates and the rows it
\* leaves, as [games |-> ..., participants |-> ...]
ScheduleSingleEliminationRound(ps, round_number) ==
    LET order == OrderBySeed(ps, ActiveParticipants(ps))
        num_games == Len(order) \div 2
    IN  [games |-> [i \in 1..num_games |->
                       NewGame(<<ps[order[2 * i - 1]].bot_id,
                                 ps[order[2 * i]].bot_id>>, round_number)],
         participants |-> CreditBye(ps, ByeParticipant(order))]

\* the pairs (i, j), i < j, in the order of the two nested loops
PairsFrom_Adjacent(i, j, n) == [k \in 1..(n - 1) |-> <<k, k + 1>>]

RECURSIVE PairsFrom(_, _, _)
PairsFrom(i, j, n) ==
    IF i >= n THEN <<>>
    ELSE IF j > n THEN PairsFrom(i + 1, i + 2, n)
    ELSE <<(<<i, j>>)>> \o PairsFrom(i, j + 1, n)

\* the round number _schedule_round_robin_games gives the pair (i, j)
RoundRobinRound(i, j) == 1

\* _schedule_round_robin_games: one game for every pair of rows
ScheduleRoundRobinGames(ps) ==
    LET pairs == PairsFrom(1, 2, Len(ps))
    IN  [k \in 1..Len(pairs) |->
            NewGame(<<ps[pairs[k][1]].bot_id, ps[pairs[k][2]].bot_id>>,
                    RoundRobinRound(pairs[k][1], pairs[k][2]))]

----------------------------------------------------------------------------
(* start: POST /api/tournaments/{id}/start and start_tournament *)

\* _seed_participants: shuffled[i].seed = i + 1; shuffle[i] is the place of
\* row i in the shuffled list
SeedParticipants_FromZero(ps, shuffle) ==
    [i \in DOMAIN ps |-> [ps[i] EXCEPT !.seed = shuffle[i] - 1]]

SeedParticipants(ps, shuffle) ==
    [i \in DOMAIN ps |-> [ps[i] EXCEPT !.seed = shuffle[i]]]

\* the two checks start_tournament makes before it changes anything
StartError_NoStatusCheck ==
    IF tournament.status = "absent" THEN "NotFound"
    ELSE IF Len(participants) < 2 THEN "InvalidState"
    ELSE "none"

StartError_OneIsEnough ==
    IF tournament.status = "absent" THEN "NotFound"
    ELSE IF tournament.status # "registration_open" THEN "InvalidState"
    ELSE IF Len(participants) < 1 THEN "InvalidState"
    ELSE "none"

StartError ==
    IF tournament.status = "absent" THEN "NotFound"
    ELSE IF tournament.status # "registration_open" THEN "InvalidState"
    ELSE IF Len(participants) < 2 THEN "InvalidState"
    ELSE "none"

\* A format with no scheduler raises after the status and the seeds were set
\* on the session's objects; the route answers 400 and its session is closed
\* without a commit, so nothing of the call is kept.
FormatImplemented(format) == format \in {"single_elimination", "round_robin"}

StartTournament ==
    /\ UNCHANGED rps_game
    /\ UNCHANGED calls
    /\ IF StartError # "none"
       THEN /\ ret' = [op |-> "start", result |-> StartError]
            /\ UNCHANGED <<tournament, participants, games, loop>>
       ELSE IF ~FormatImplemented(tournament.format)
       THEN /\ ret' = [op |-> "start", result |-> "NotImplemented"]
            /\ UNCHANGED <<tournament, participants, games, loop>>
       ELSE \E shuffle \in Shuffles(Len(participants)) :
            LET seeded == SeedParticipants(participants, shuffle)
                round1 == ScheduleSingleEliminationRound(seeded, 1)
            IN  /\ tournament' = [tournament EXCEPT !.status = "in_progress"]
                /\ IF tournament.format = "single_elimination"
                   THEN /\ participants' = round1.participants
                        /\ games' = games \o round1.games
                   ELSE /\ participants' = seeded
                        /\ games' = games \o ScheduleRoundRobinGames(seeded)
                \* background_tasks.add_task(execute_tournament_games, id)
                /\ loop' = [pc |-> "poll", waiting_games |-> <<>>]
                /\ ret' = [op |-> "start", result |-> "ok"]

----------------------------------------------------------------------------
(* Game engines: the reference engine of games/rps.py as execute_game      *)
(* drives it, and the outcomes of any other registered BaseGame            *)

RPSChoice == {"rock", "paper", "scissors"}

\* config.get("total_rounds", 1) of a tournament created without game_config
DefaultTotalRounds == 1

\* max_moves of execute_game
max_moves == 1000

\* RockPaperScissorsGame.__init__ and _initialize_state: current_player keeps
\* the default of GameState, None; moves is the log self.moves and rounds is
\* state.metadata["rounds"]
InitializeState(players, total_rounds) ==
    [players |-> players, total_rounds |-> total_rounds, round_number |-> 1,
     moves_this_round |-> <<>>, scores |-> <<0, 0>>, current_player |-> None,
     moves |-> <<>>, rounds |-> <<>>]

\* is_game_over one round early
is_game_over_Inclusive(g) == g.round_number >= g.total_rounds

is_game_over(g) == g.round_number > g.total_rounds

get_valid_moves(g, player) ==
    IF player \notin Range(g.players) THEN {}
    ELSE IF is_game_over(g) THEN {}
    ELSE IF \E k \in DOMAIN g.moves_this_round :
                g.moves_this_round[k][1] = player THEN {}
    ELSE RPSChoice

\* the fixed pairwise-beats table: wins[choice] is what choice beats
Beats(choice) ==
    CASE choice = "rock" -> "scissors"
      [] choice = "paper" -> "rock"
      [] OTHER -> "paper"

\* _determine_round_winner with the table read backwards
DetermineRoundWinner_Reversed(choice1, choice2) ==
    IF choice1 = choice2 THEN 0
    ELSE IF Beats(choice2) = choice1 THEN 1 ELSE 2

\* _determine_round_winner, as the position (1 or 2) of the winner, 0 on a tie
DetermineRoundWinner(choice1, choice2) ==
    IF choice1 = choice2 THEN 0
    ELSE IF Beats(choice1) = choice2 THEN 1 ELSE 2

\* moves_this_round read by order of arrival: the first mover's choice for
\* the first player, the second mover's for the second
ChoiceOf_ByArrival(g, player) ==
    g.moves_this_round[IF player = g.players[1] THEN 1 ELSE 2][2]

\* self.state.moves_this_round[player]
ChoiceOf(g, player) ==
    LET k == CHOOSE k \in DOMAIN g.moves_this_round :
                 g.moves_this_round[k][1] = player
    IN  g.moves_this_round[k][2]

\* _resolve_round giving each player a point for a tied round
ResolveRound_TiePoints(g) ==
    LET choice1 == ChoiceOf(g, g.players[1])
        choice2 == ChoiceOf(g, g.players[2])
        w == DetermineRoundWinner(choice1, choice2)
        round_result == [round |-> g.round_number,
                         moves |-> <<choice1, choice2>>,
                         winner |-> IF w = 0 THEN None ELSE g.players[w]]
    IN  [g EXCEPT !.scores = IF w = 0 THEN [k \in 1..2 |-> @[k] + 1]
                             ELSE [@ EXCEPT ![w] = @ + 1],
                  !.rounds = Append(@, round_result),
                  !.moves_this_round = <<>>,
                  !.round_number = @ + 1]

\* _resolve_round
ResolveRound(g) ==
    LET choice1 == ChoiceOf(g, g.players[1])
        choice2 == ChoiceOf(g, g.players[2])
        w == DetermineRoundWinner(choice1, choice2)
        round_result == [round |-> g.round_number,
                         moves |-> <<choice1, choice2>>,
                         winner |-> IF w = 0 THEN None ELSE g.players[w]]
    IN  [g EXCEPT !.scores = IF w = 0 THEN @ ELSE [@ EXCEPT ![w] = @ + 1],
                  !.rounds = Append(@, round_result),
                  !.moves_this_round = <<>>,
                  !.round_number = @ + 1]

\* the action strings a client sends: the three choices, spellings of them in
\* other letter case, and a string that is no choice
MoveActions == {"rock", "paper", "scissors", "ROCK", "lizard"}

\* str.lower on the strings of MoveActions
Lower(action) ==
    CASE action = "ROCK" -> "rock"
      [] OTHER -> action

\* is_valid_move without the check that the game is over
is_valid_move_IgnoresGameOver(g, player, action) ==
    /\ player \in Range(g.players)
    /\ ~\E k \in DOMAIN g.moves_this_round : g.moves_this_round[k][1] = player
    /\ Lower(action) \in RPSChoice

\* is_valid_move
is_valid_move(g, player, action) ==
    /\ player \in Range(g.players)
    /\ ~\E k \in DOMAIN g.moves_this_round : g.moves_this_round[k][1] = player
    /\ ~is_game_over(g)
    /\ Lower(action) \in RPSChoice

\* apply_move: an invalid move raises ValueError before anything is written
\* (the state is returned as it was); a valid one is logged, stored in lower
\* case, and resolves the round when it is the second
apply_move(g, player, action) ==
    IF ~is_valid_move(g, player, action) THEN g
    ELSE LET moved == [g EXCEPT !.moves = Append(@, <<player, action>>),
                                !.moves_this_round =
                                    Append(@, <<player, Lower(action)>>)]
         IN  IF Len(moved.moves_this_round) = 2 THEN ResolveRound(moved)
             ELSE moved

\* get_winner
get_winner(g) ==
    IF ~is_game_over(g) THEN None
    ELSE IF g.scores[1] > g.scores[2] THEN g.players[1]
    ELSE IF g.scores[2] > g.scores[1] THEN g.players[2]
    ELSE None

\* the while loop of execute_game; choices[k] is what random.choice picks for
\* the k-th move
RECURSIVE PlayGame(_, _, _)
PlayGame(g, move_count, choices) ==
    IF ~is_game_over(g) /\ move_count < max_moves
    THEN LET current_player == g.current_player
         IN  IF get_valid_moves(g, current_player) = {}
             THEN g
             ELSE PlayGame(apply_move(g, current_player, choices[move_count + 1]),
                           move_count + 1, choices)
    ELSE g

\* what random.choice may pick over a whole game
ChoiceSequences(total_rounds) == [1..(2 * total_rounds) -> RPSChoice]

\* How a registered engine other than the reference engine ends a match
\* between player1 and player2: it is played to its end and get_winner names
\* one of the two, or the engine raises (in its constructor, get_valid_moves
\* or apply_move).  Matches without a winner come from the reference engine.
CustomEngineRuns(players) ==
    {[raised |-> FALSE, winner |-> w] : w \in {players[1], players[2]}}
        \cup {[raised |-> TRUE, winner |-> None]}

\* The runs of the engine part of execute_game for one game: whether it
\* raised, and the value of game_instance.get_winner() if it did not.
EngineRuns(game_type, players) ==
    IF game_type \notin game_registry
    THEN {[raised |-> TRUE, winner |-> None]}
    ELSE IF game_type \in {"rps", "rock_paper_scissors"}
    THEN {[raised |-> FALSE,
           winner |-> get_winner(PlayGame(
                          InitializeState(players, DefaultTotalRounds), 0, c))] :
            c \in ChoiceSequences(DefaultTotalRounds)}
    ELSE CustomEngineRuns(players)

----------------------------------------------------------------------------
(* _update_participant_stats *)

\* the inner loop of the tie branch for one player of the game
TieAdjust(ps, bot_id, is_loser) ==
    LET i == ParticipantIndex(ps, bot_id)
    IN  IF i = 0 THEN ps
        ELSE IF is_loser
        THEN [ps EXCEPT ![i].eliminated = TRUE, ![i].losses = @ + 1,
                        ![i].score = @ - 1]
        ELSE [ps EXCEPT ![i].wins = @ + 1, ![i].draws = @ - 1,
                        ![i].score = @ + 2]

\* the body of the outer loop when the loser is never eliminated
UpdateOnePlayer_NoElimination(ps, game, bot_id, format, loser_idx) ==
    LET i == ParticipantIndex(ps, bot_id)
        played == [ps EXCEPT ![i].games_played = @ + 1]
    IN  IF i = 0 THEN ps
        ELSE IF game.winner_id = bot_id
        THEN [played EXCEPT ![i].wins = @ + 1, ![i].score = @ + 3]
        ELSE [played EXCEPT ![i].losses = @ + 1]

\* the body of the outer loop for one player; loser_idx is random.randint(0, 1)
UpdateOnePlayer(ps, game, bot_id, format, loser_idx) ==
    LET i == ParticipantIndex(ps, bot_id)
        played == [ps EXCEPT ![i].games_played = @ + 1]
    IN  IF i = 0 THEN ps
        ELSE IF game.winner_id = bot_id
        THEN [played EXCEPT ![i].wins = @ + 1, ![i].score = @ + 3]
        ELSE IF game.winner_id = None
        THEN LET drawn == [played EXCEPT ![i].draws = @ + 1, ![i].score = @ + 1]
             IN  IF format = "single_elimination" /\ Len(game.players) = 2
                 THEN TieAdjust(TieAdjust(drawn, game.players[1], loser_idx = 0),
                                game.players[2], loser_idx = 1)
                 ELSE drawn
        ELSE IF format = "single_elimination"
        THEN [played EXCEPT ![i].losses = @ + 1, ![i].eliminated = TRUE]
        ELSE [played EXCEPT ![i].losses = @ + 1]

UpdateParticipantStats(ps, game, format, loser_idxs) ==
    UpdateOnePlayer(
        UpdateOnePlayer(ps, game, game.players[1], format, loser_idxs[1]),
        game, game.players[2], format, loser_idxs[2])

----------------------------------------------------------------------------
(* execute_game *)

\* execute_game up to its commit, when it does not raise: the game is
\* completed, and the stats are updated only if there is a winner
CompletedGame(game, winner) ==
    [game EXCEPT !.status = "completed", !.winner_id = winner]

\* the rows execute_game can leave, over the values random.randint can take
StatsAfterGame(ps, game, winner, format) ==
    IF winner # None
    THEN {UpdateParticipantStats(ps, CompletedGame(game, winner), format, loser_idxs) :
            loser_idxs \in [1..2 -> 0..1]}
    ELSE {ps}

\* execute_game raises: for a game that is not waiting, for a game type that
\* is not registered, or out of the engine
ExecuteGameRaises(game, run) ==
    game.status # "waiting" \/ run.raised

----------------------------------------------------------------------------
(* advance: advance_tournament and what it calls *)

\* query(Game).filter(status != COMPLETED).count()
IncompleteGames(gs) ==
    Cardinality({i \in DOMAIN gs : gs[i].status # "completed"})

\* the two early returns of advance_tournament
AdvanceBlocked_IgnoresGames == tournament.status # "in_progress"

AdvanceBlocked_IgnoresStatus == IncompleteGames(games) > 0

AdvanceBlocked ==
    \/ tournament.status # "in_progress"
    \/ IncompleteGames(games) > 0

\* the sort key of _complete_tournament: (-score, -wins, games_played)
RankedBefore(p, q) ==
    \/ p.score > q.score
    \/ p.score = q.score /\ p.wins > q.wins
    \/ p.score = q.score /\ p.wins = q.wins /\ p.games_played < q.games_played

SameRankKey(p, q) ==
    p.score = q.score /\ p.wins = q.wins /\ p.games_played = q.games_played

\* the position of row i when the sort runs from the lowest key up
FinalRank_Ascending(ps, i) ==
    1 + Cardinality({j \in DOMAIN ps :
                        \/ RankedBefore(ps[i], ps[j])
                        \/ SameRankKey(ps[j], ps[i]) /\ j < i})

\* the position list.sort (a stable sort) gives row i of the query result
FinalRank(ps, i) ==
    1 + Cardinality({j \in DOMAIN ps :
                        \/ RankedBefore(ps[j], ps[i])
                        \/ SameRankKey(ps[j], ps[i]) /\ j < i})

\* _complete_tournament without its first statement: the ranks are assigned
\* and the status is left as it is
CompleteTournament_StaysInProgress ==
    /\ participants' = [i \in DOMAIN participants |->
                           [participants[i] EXCEPT
                               !.final_rank = FinalRank(participants, i)]]
    /\ UNCHANGED <<tournament, games>>

\* _complete_tournament
CompleteTournament ==
    /\ tournament' = [tournament EXCEPT !.status = "completed"]
    /\ participants' = [i \in DOMAIN participants |->
                           [participants[i] EXCEPT
                               !.final_rank = FinalRank(participants, i)]]
    /\ UNCHANGED games

\* order_by(Game.round_number.desc()).first(), plus one
NextRound(gs) ==
    IF gs = <<>> THEN 1
    ELSE 1 + (CHOOSE r \in {gs[i].round_number : i \in DOMAIN gs} :
                 \A i \in DOMAIN gs : gs[i].round_number <= r)

\* active_participants <= 1: the tournament is complete
TournamentDecided_AtTwo(ps) == Cardinality(ActiveParticipants(ps)) <= 2

TournamentDecided(ps) == Cardinality(ActiveParticipants(ps)) <= 1

\* _advance_single_elimination, returning result
AdvanceSingleElimination(result) ==
    IF TournamentDecided(participants)
    THEN /\ CompleteTournament
         /\ result = FALSE
    ELSE LET round == ScheduleSingleEliminationRound(participants, NextRound(games))
         IN  /\ NextRound(games) <= MaxRounds
             /\ games' = games \o round.games
             /\ participants' = round.participants
             /\ result = TRUE
             /\ UNCHANGED tournament

\* advance_tournament on an existing tournament, returning result
AdvanceTournament(result) ==
    IF AdvanceBlocked
    THEN /\ result = FALSE
         /\ UNCHANGED <<tournament, participants, games>>
    ELSE IF tournament.format = "single_elimination"
    THEN AdvanceSingleElimination(result)
    ELSE IF tournament.format = "round_robin"
    THEN CompleteTournament /\ result = FALSE
    ELSE /\ result = FALSE
         /\ UNCHANGED <<tournament, participants, games>>

\* advance called by a client of the manager
AdvanceCall ==
    /\ UNCHANGED rps_game
    /\ IF tournament.status = "absent"
       THEN /\ ret' = [op |-> "advance", result |-> "NotFound"]
            /\ UNCHANGED <<tournament, participants, games>>
       ELSE \E result \in BOOLEAN :
               /\ AdvanceTournament(result)
               /\ ret' = [op |-> "advance",
                          result |-> IF result THEN "true" ELSE "false"]
    /\ UNCHANGED <<loop, calls>>

----------------------------------------------------------------------------
(* get_bracket: the projection of a tournament.  game_id is the position  *)
(* of the game row; bot_name, a column of the Bot row, is left out.        *)

\* int(math.log2(n)): the logarithm rounded down
CeilLog2_Floor(n) == CHOOSE k \in 0..n : 2 ^ k <= n /\ n < 2 ^ (k + 1)

\* math.ceil(math.log2(n)) for n >= 1
RECURSIVE CeilLog2From(_, _)
CeilLog2From(n, k) == IF 2 ^ k >= n THEN k ELSE CeilLog2From(n, k + 1)

CeilLog2(n) == CeilLog2From(n, 0)

\* game_data of _get_elimination_bracket
GameData(gs, g) ==
    [game_id |-> g, status |-> gs[g].status, winner_id |-> gs[g].winner_id,
     players |-> gs[g].players]

\* games_by_round: the games of round r, ordered by creation
GamesByRound(gs, r) ==
    SelectSeq([g \in DOMAIN gs |-> GameData(gs, g)],
              LAMBDA d : gs[d.game_id].round_number = r)

\* _get_elimination_bracket, for at least one participant
EliminationBracket(ps, gs) ==
    [format |-> "single_elimination",
     rounds |-> [r \in {gs[g].round_number : g \in DOMAIN gs} |->
                    GamesByRound(gs, r)],
     participants |-> [i \in DOMAIN ps |->
                          [bot_id |-> ps[i].bot_id, seed |-> ps[i].seed,
                           eliminated |-> ps[i].eliminated,
                           final_rank |-> ps[i].final_rank]],
     total_rounds |-> CeilLog2(Len(ps))]

\* order_by(score.desc(), wins.desc()): the place of row i in the result
StandingRank(ps, i) ==
    1 + Cardinality({j \in DOMAIN ps :
                        \/ ps[j].score > ps[i].score
                        \/ ps[j].score = ps[i].score /\ ps[j].wins > ps[i].wins
                        \/ /\ ps[j].score = ps[i].score
                           /\ ps[j].wins = ps[i].wins
                           /\ j < i})

Standings(ps) ==
    [k \in DOMAIN ps |->
        LET i == CHOOSE i \in DOMAIN ps : StandingRank(ps, i) = k
        IN  [rank |-> k, bot_id |-> ps[i].bot_id,
             games_played |-> ps[i].games_played, wins |-> ps[i].wins,
             draws |-> ps[i].draws, losses |-> ps[i].losses,
             score |-> ps[i].score]]

\* the completed games of a and b, in the order of the query
CompletedBetween(gs, a, b) ==
    {g \in DOMAIN gs : /\ gs[g].status = "completed"
                       /\ Range(gs[g].players) = {a, b}}

\* head_to_head[a][b]: written by every completed game of a and b, the
\* last one stays
HeadToHeadResult(gs, a, b) ==
    LET g == CHOOSE g \in CompletedBetween(gs, a, b) :
                \A h \in CompletedBetween(gs, a, b) : h <= g
    IN  IF gs[g].winner_id = a THEN "win"
        ELSE IF gs[g].winner_id = b THEN "loss"
        ELSE "draw"

HeadToHead(ps, gs) ==
    {<<a, b, HeadToHeadResult(gs, a, b)>> :
        <<a, b>> \in {<<gs[g].players[1], gs[g].players[2]>> :
                         g \in {h \in DOMAIN gs : gs[h].status = "completed"}}
                     \cup {<<gs[g].players[2], gs[g].players[1]>> :
                         g \in {h \in DOMAIN gs : gs[h].status = "completed"}}}

\* _get_round_robin_standings
RoundRobinStandings(ps, gs) ==
    [format |-> "round_robin",
     standings |-> Standings(ps),
     head_to_head |-> HeadToHead(ps, gs),
     total_games |-> Cardinality({g \in DOMAIN gs : gs[g].status = "completed"}),
     games_remaining |-> Cardinality({g \in DOMAIN gs : gs[g].status = "waiting"})]

\* return {} for a format without a projection
EmptyDict == [format |-> "none"]

\* what get_bracket raises: TournamentError for an unknown tournament, and
\* the ValueError of math.log2(0) for an elimination bracket of nobody
BracketError ==
    IF tournament.status = "absent" THEN "NotFound"
    ELSE IF tournament.format = "single_elimination" /\ Len(participants) = 0
    THEN "ValueError"
    ELSE "none"

\* what get_bracket returns when it does not raise
BracketView ==
    IF BracketError # "none" THEN EmptyDict
    ELSE IF tournament.format = "single_elimination"
    THEN EliminationBracket(participants, games)
    ELSE IF tournament.format = "round_robin"
    THEN RoundRobinStandings(participants, games)
    ELSE EmptyDict

get_bracket_Alternating ==
    [error |-> BracketError,
     view |-> IF ret.op = "bracket" THEN EmptyDict ELSE BracketView]

get_bracket == [error |-> BracketError, view |-> BracketView]

GetBracket ==
    /\ UNCHANGED rps_game
    /\ ret' = [op |-> "bracket", result |-> get_bracket]
    /\ UNCHANGED <<tournament, participants, games, loop, calls>>

----------------------------------------------------------------------------
(* execute_tournament_games, the scheduling task of one tournament *)

\* query(Game).filter_by(status=WAITING).all(): the ids of the waiting games
RECURSIVE WaitingFrom(_, _)
WaitingFrom(gs, i) ==
    IF i > Len(gs) THEN <<>>
    ELSE IF gs[i].status = "waiting" THEN <<i>> \o WaitingFrom(gs, i + 1)
    ELSE WaitingFrom(gs, i + 1)

WaitingGames(gs) == WaitingFrom(gs, 1)

\* top of the while loop: the query for the waiting games
LoopPoll ==
    /\ UNCHANGED rps_game
    /\ loop.pc = "poll"
    /\ loop' = [pc |-> IF WaitingGames(games) = <<>> THEN "advance" ELSE "execute",
                waiting_games |-> WaitingGames(games)]
    /\ UNCHANGED <<tournament, participants, games, ret, calls>>

\* no game is waiting and advance_tournament returns: break on False,
\* continue on True
LoopAdvance ==
    /\ UNCHANGED rps_game
    /\ loop.pc = "advance"
    /\ \E result \in BOOLEAN :
          /\ AdvanceTournament(result)
          /\ loop' = [loop EXCEPT !.pc = IF result THEN "poll" ELSE "done"]
    /\ UNCHANGED <<ret, calls>>

\* what the outer except clause does with the tournament
CancelOnError_KeepsStatus(t) == t

CancelOnError(t) ==
    IF t.status = "in_progress" THEN [t EXCEPT !.status = "cancelled"] ELSE t

\* no game is waiting and advance_tournament raises (the store fails): the
\* outer except clause reports the error and ends the task
LoopAdvanceFails ==
    /\ UNCHANGED rps_game
    /\ loop.pc = "advance"
    /\ tournament' = CancelOnError(tournament)
    /\ loop' = [loop EXCEPT !.pc = "failed"]
    /\ UNCHANGED <<participants, games, ret, calls>>

\* what the inner except clause does with the game
CancelGame_KeepsStatus(game) == [game EXCEPT !.status = "in_progress"]

CancelGame(game) == [game EXCEPT !.status = "cancelled"]

\* one pass of the for loop: execute_game inside try/except
LoopExecuteGame ==
    /\ UNCHANGED rps_game
    /\ loop.pc = "execute"
    /\ LET g == Head(loop.waiting_games)
           rest == Tail(loop.waiting_games)
       IN  /\ \E run \in EngineRuns(tournament.game_type, games[g].players) :
                 IF ExecuteGameRaises(games[g], run)
                 THEN /\ games' = [games EXCEPT ![g] = CancelGame(@)]
                      /\ UNCHANGED participants
                 ELSE /\ games' = [games EXCEPT ![g] = CompletedGame(@, run.winner)]
                      /\ participants' \in
                            StatsAfterGame(participants, games[g], run.winner,
                                           tournament.format)
           /\ loop' = [pc |-> IF rest = <<>> THEN "sleep" ELSE "execute",
                       waiting_games |-> rest]
    /\ UNCHANGED <<tournament, ret, calls>>

\* await asyncio.sleep(0.1), then the next pass of the while loop
LoopSleep ==
    /\ UNCHANGED rps_game
    /\ loop.pc = "sleep"
    /\ loop' = [loop EXCEPT !.pc = "poll"]
    /\ UNCHANGED <<tournament, participants, games, ret, calls>>

----------------------------------------------------------------------------
(* execute_game move by move, for any registered BaseGame.  An engine is   *)
(* described by what the loop of execute_game sees of it: after how many   *)
(* applied moves is_game_over() is true, after how many get_valid_moves()  *)
(* is empty, at which move apply_move raises, and what get_winner returns. *)

\* the engine never does it
Never == -1

Reached(after, moves) == after # Never /\ moves >= after

\* game_class(game_id, player_ids) of another registered engine
EngineBehaviours(players) ==
    [over_after : {Never, 2}, stuck_after : {Never, 3}, raises_at : {Never, 1},
     winner : {None, players[1]}, moves : {0}]

\* the game type names the reference engine
ReferenceEngine == tournament.game_type \in {"rps", "rock_paper_scissors"}

\* the game instance execute_game creates
NewEngine(players) ==
    IF ReferenceEngine THEN {InitializeState(players, DefaultTotalRounds)}
    ELSE EngineBehaviours(players)

\* game_instance.is_game_over()
EngineIsOver(game_instance) ==
    IF ReferenceEngine THEN is_game_over(game_instance)
    ELSE Reached(game_instance.over_after, game_instance.moves)

\* game_instance.get_valid_moves(game_instance.state.current_player)
EngineValidMoves(game_instance) ==
    IF ReferenceEngine
    THEN get_valid_moves(game_instance, game_instance.current_player)
    ELSE IF Reached(game_instance.stuck_after, game_instance.moves) THEN {}
    ELSE {"move"}

\* the condition of the while loop
MoveAllowed_NoCap(over, move_count) == ~over

MoveAllowed(over, move_count) == ~over /\ move_count < max_moves

\* the loop goes on: its condition holds and the engine offers a move
PlaysOn(game_instance, move_count) ==
    /\ MoveAllowed(EngineIsOver(game_instance), move_count)
    /\ EngineValidMoves(game_instance) # {}

\* the task leaves execute_game for the rest of its list
LeaveGame ==
    [pc |-> IF Tail(loop.waiting_games) = <<>> THEN "sleep" ELSE "execute",
     waiting_games |-> Tail(loop.waiting_games)]

\* execute_game up to the while loop; a game type that is not registered
\* raises into the inner except clause of the task
ExecuteBegin ==
    /\ UNCHANGED rps_game
    /\ loop.pc = "execute"
    /\ LET g == Head(loop.waiting_games)
       IN  IF games[g].status # "waiting" \/ tournament.game_type \notin game_registry
           THEN /\ games' = [games EXCEPT ![g] = CancelGame(@)]
                /\ loop' = LeaveGame
           ELSE \E game_instance \in NewEngine(games[g].players) :
                   /\ games' = [games EXCEPT ![g].status = "in_progress"]
                   /\ loop' = [pc |-> "playing",
                               waiting_games |-> loop.waiting_games,
                               game_instance |-> game_instance,
                               move_count |-> 0]
    /\ UNCHANGED <<tournament, participants, ret, calls>>

\* one pass of the while loop; apply_move may raise
ExecuteMove ==
    /\ UNCHANGED rps_game
    /\ loop.pc = "playing"
    /\ PlaysOn(loop.game_instance, loop.move_count)
    /\ IF ReferenceEngine
       THEN \E chosen_move \in EngineValidMoves(loop.game_instance) :
               /\ loop' = [loop EXCEPT
                              !.game_instance =
                                  apply_move(@, @.current_player, chosen_move),
                              !.move_count = @ + 1]
               /\ UNCHANGED games
       ELSE IF loop.game_instance.raises_at = loop.game_instance.moves + 1
       THEN /\ games' = [games EXCEPT ![Head(loop.waiting_games)] = CancelGame(@)]
            /\ loop' = LeaveGame
       ELSE /\ loop' = [loop EXCEPT !.game_instance.moves = @ + 1,
                                    !.move_count = @ + 1]
            /\ UNCHANGED games
    /\ UNCHANGED <<tournament, participants, ret, calls>>

\* the loop is left: the game is completed, the winner and the stats set
ExecuteEnd ==
    /\ UNCHANGED rps_game
    /\ loop.pc = "playing"
    /\ ~PlaysOn(loop.game_instance, loop.move_count)
    /\ LET g == Head(loop.waiting_games)
           winner == IF ReferenceEngine THEN get_winner(loop.game_instance)
                     ELSE loop.game_instance.winner
       IN  /\ games' = [games EXCEPT ![g] = CompletedGame(@, winner)]
           /\ participants' \in StatsAfterGame(participants, games[g], winner,
                                                tournament.format)
    /\ loop' = LeaveGame
    /\ UNCHANGED <<tournament, ret, calls>>

----------------------------------------------------------------------------
(* Calls of several workers.  Every request has a session of its own      *)
(* (get_db) and the manager takes no lock, so the statements of two calls  *)
(* served by different workers interleave: a call is taken in steps, each  *)
(* its reads up to the next decision or its writes up to the commit.       *)

Workers == 1..RaceCalls

\* a call that has not begun; seen is what its session has read
IdleCall == [pc |-> "idle", result |-> "none", seen |-> <<>>]

\* start_tournament up to its two checks: the session reads the tournament
\* and the participant rows
StartCheck(c) ==
    /\ UNCHANGED rps_game
    /\ calls[c].pc = "idle"
    /\ calls' = [calls EXCEPT ![c] =
                    IF StartError # "none"
                    THEN [pc |-> "returned", result |-> StartError, seen |-> <<>>]
                    ELSE [pc |-> "checked", result |-> "none",
                          seen |-> participants]]
    /\ UNCHANGED <<tournament, participants, games, loop, ret>>

\* the flush of a session: the columns it changed on the rows it had read
\* are written, the other columns of the rows stay as they are
FlushRows(rows, seen, written) ==
    [i \in DOMAIN rows |->
        [rows[i] EXCEPT
            !.seed = IF written[i].seed # seen[i].seed
                     THEN written[i].seed ELSE @,
            !.wins = IF written[i].wins # seen[i].wins
                     THEN written[i].wins ELSE @,
            !.games_played = IF written[i].games_played # seen[i].games_played
                             THEN written[i].games_played ELSE @]]

\* start_tournament from the status update to the commit, on the rows the
\* session has read, and the task the route adds
StartCommit(c) ==
    /\ UNCHANGED rps_game
    /\ calls[c].pc = "checked"
    /\ IF ~FormatImplemented(tournament.format)
       THEN /\ calls' = [calls EXCEPT ![c] = [pc |-> "returned",
                                              result |-> "NotImplemented",
                                              seen |-> <<>>]]
            /\ UNCHANGED <<tournament, participants, games, loop>>
       ELSE \E shuffle \in Shuffles(Len(calls[c].seen)) :
            LET seeded == SeedParticipants(calls[c].seen, shuffle)
                round1 == ScheduleSingleEliminationRound(seeded, 1)
            IN  /\ tournament' = [tournament EXCEPT !.status = "in_progress"]
                /\ IF tournament.format = "single_elimination"
                   THEN /\ participants' = FlushRows(participants, calls[c].seen,
                                                     round1.participants)
                        /\ games' = games \o round1.games
                   ELSE /\ participants' = FlushRows(participants, calls[c].seen,
                                                     seeded)
                        /\ games' = games \o ScheduleRoundRobinGames(seeded)
                /\ loop' = [pc |-> "poll", waiting_games |-> <<>>]
                /\ calls' = [calls EXCEPT ![c] = [pc |-> "returned",
                                                  result |-> "ok",
                                                  seen |-> <<>>]]
    /\ UNCHANGED ret

\* advance_tournament up to its two early returns
AdvanceCheck(c) ==
    /\ UNCHANGED rps_game
    /\ calls[c].pc = "idle"
    /\ calls' = [calls EXCEPT ![c] =
                    IF AdvanceBlocked
                    THEN [pc |-> "returned", result |-> "false", seen |-> <<>>]
                    ELSE [pc |-> "checked", result |-> "none", seen |-> <<>>]]
    /\ UNCHANGED <<tournament, participants, games, loop, ret>>

\* _advance_single_elimination up to next_round: the count of the active
\* participants, then the tournament is completed or the round number read
AdvanceDecide(c) ==
    /\ UNCHANGED rps_game
    /\ calls[c].pc = "checked"
    /\ IF tournament.format = "single_elimination"
          /\ ~TournamentDecided(participants)
       THEN /\ NextRound(games) <= MaxRounds
            /\ calls' = [calls EXCEPT ![c] = [pc |-> "scheduling",
                                              result |-> "none",
                                              seen |-> NextRound(games)]]
            /\ UNCHANGED <<tournament, participants, games>>
       ELSE /\ IF FormatImplemented(tournament.format)
               THEN CompleteTournament
               ELSE UNCHANGED <<tournament, participants, games>>
            /\ calls' = [calls EXCEPT ![c] = [pc |-> "returned",
                                              result |-> "false",
                                              seen |-> <<>>]]
    /\ UNCHANGED <<loop, ret>>

\* _schedule_single_elimination_round(tournament, next_round) and the commit
AdvanceSchedule(c) ==
    /\ UNCHANGED rps_game
    /\ calls[c].pc = "scheduling"
    /\ LET round == ScheduleSingleEliminationRound(participants, calls[c].seen)
       IN  /\ games' = games \o round.games
           /\ participants' = round.participants
    /\ calls' = [calls EXCEPT ![c] = [pc |-> "returned", result |-> "true",
                                      seen |-> calls[c].seen]]
    /\ UNCHANGED <<tournament, loop, ret>>

----------------------------------------------------------------------------
(* The reference engine driven through its own interface, as the engine's  *)
(* tests and the game routes do: a RockPaperScissorsGame is constructed    *)
(* and apply_move is called with any mover and any action string.          *)

\* the players lists a client constructs a game with: two players in either
\* order, the same player twice, and a list of the wrong length
PlayerLists == {<<1, 2>>, <<2, 1>>, <<1, 1>>, <<1>>}

\* who calls apply_move: the players and someone else
Movers == {1, 2, 3}

\* RockPaperScissorsGame(game_id, players, total_rounds)
Construct(players, total_rounds) ==
    /\ rps_game = NoGame
    /\ IF Len(players) # 2
       THEN /\ rps_game' = NoGame
            /\ ret' = [op |-> "construct", result |-> "ValueError"]
       ELSE /\ rps_game' = InitializeState(players, total_rounds)
            /\ ret' = [op |-> "construct", result |-> "ok"]
    /\ UNCHANGED <<tournament, participants, games, loop, calls>>

\* game.apply_move(Move(player, action))
ApplyMove(player, action) ==
    /\ rps_game # NoGame
    /\ rps_game' = apply_move(rps_game, player, action)
    /\ ret' = [op |-> "apply_move",
               result |-> IF is_valid_move(rps_game, player, action)
                          THEN "ok" ELSE "ValueError"]
    /\ UNCHANGED <<tournament, participants, games, loop, calls>>

----------------------------------------------------------------------------
(* OptimizedRPSGame (games/rps_optimized.py): the engine that looks the    *)
(* winner up in a table of integer choices.                                *)

\* None as an entry of WINNER_TABLE (0 is an entry of its own)
NoIndex == -1

\* WINNER_TABLE with the two winner indexes exchanged
WINNER_TABLE_Exchanged(choice1, choice2) ==
    IF choice1 = choice2 THEN NoIndex
    ELSE IF <<choice1, choice2>> \in {<<0, 2>>, <<1, 0>>, <<2, 1>>} THEN 1
    ELSE 0

\* WINNER_TABLE[(choice1, choice2)]: 0 for player1, 1 for player2
WINNER_TABLE(choice1, choice2) ==
    CASE <<choice1, choice2>> = <<0, 0>> -> NoIndex
      [] <<choice1, choice2>> = <<0, 1>> -> 1
      [] <<choice1, choice2>> = <<0, 2>> -> 0
      [] <<choice1, choice2>> = <<1, 0>> -> 0
      [] <<choice1, choice2>> = <<1, 1>> -> NoIndex
      [] <<choice1, choice2>> = <<1, 2>> -> 1
      [] <<choice1, choice2>> = <<2, 0>> -> 1
      [] <<choice1, choice2>> = <<2, 1>> -> 0
      [] <<choice1, choice2>> = <<2, 2>> -> NoIndex

\* the winner of OptimizedRPSGame(player1, player2).play_game(choice1, choice2)
play_game(player1, player2, choice1, choice2) ==
    LET winner_index == WINNER_TABLE(choice1, choice2)
    IN  IF winner_index = NoIndex THEN None
        ELSE IF winner_index = 0 THEN player1 ELSE player2

\* choice_map of play_game_string
choice_map(choice) ==
    CASE choice = "rock" -> 0
      [] choice = "paper" -> 1
      [] choice = "scissors" -> 2

\* the winner of play_game_string(choice1, choice2)
play_game_string(player1, player2, choice1, choice2) ==
    play_game(player1, player2, choice_map(choice1), choice_map(choice2))

\* a client plays the pair of choices on an OptimizedRPSGame of the players
\* of the reference game
PlayGameString(choice1, choice2) ==
    /\ rps_game # NoGame
    /\ ret' = [op |-> "play_game_string", result |-> "ok",
               choices |-> <<choice1, choice2>>,
               winner |-> play_game_string(rps_game.players[1],
                                           rps_game.players[2],
                                           choice1, choice2)]
    /\ UNCHANGED <<tournament, participants, games, loop, calls, rps_game>>

----------------------------------------------------------------------------
(* execute_game called on one game by a caller other than the scheduling  *)
(* task of this model: the task that a second successful start adds, or   *)
(* any other holder of a TournamentManager.  The caller has a session of  *)
(* its own, so only what execute_game commits is seen by the others.      *)

NoSuchGame == 0

\* execute_game(game_id): the three raises before the game is touched, the
\* engine's own failure (nothing was committed), or the committed result
ExecuteGameCall(g) ==
    /\ UNCHANGED rps_game
    /\ IF g \notin DOMAIN games
       THEN /\ ret' = [op |-> "execute_game", game |-> g, result |-> "NotFound"]
            /\ UNCHANGED <<games, participants>>
       ELSE IF games[g].status # "waiting"
       THEN /\ ret' = [op |-> "execute_game", game |-> g,
                       result |-> "AlreadyPlayed"]
            /\ UNCHANGED <<games, participants>>
       ELSE \E run \in EngineRuns(tournament.game_type, games[g].players) :
               IF ExecuteGameRaises(games[g], run)
               THEN /\ ret' = [op |-> "execute_game", game |-> g,
                               result |-> "Error"]
                    /\ UNCHANGED <<games, participants>>
               ELSE /\ ret' = [op |-> "execute_game", game |-> g,
                               result |-> "ok"]
                    /\ games' = [games EXCEPT ![g] = CompletedGame(@, run.winner)]
                    /\ participants' \in
                          StatsAfterGame(participants, games[g], run.winner,
                                         tournament.format)
    /\ UNCHANGED <<tournament, loop, calls>>

----------------------------------------------------------------------------
(* The specification *)

Create ==
    \E format \in RequestFormats, game_type \in RequestGameTypes,
       max_participants \in RequestMaxParticipants :
        CreateTournament(format, game_type, max_participants)

Join == \E bot_id \in JoinInputs : JoinTournament(bot_id)

Next ==
    \/ Create
    \/ Join
    \/ StartTournament
    \/ AdvanceCall
    \/ LoopPoll
    \/ LoopAdvance
    \/ LoopAdvanceFails
    \/ LoopExecuteGame
    \/ LoopSleep

Spec == Init /\ [][Next]_vars

\* Creation and registration alone, over more values of max_participants
CreateWithLimit ==
    \E format \in RequestFormats, game_type \in RequestGameTypes,
       max_participants \in RegistrationMaxParticipants :
        CreateTournament(format, game_type, max_participants)

NextRegistration ==
    \/ CreateWithLimit
    \/ Join

SpecRegistration == Init /\ [][NextRegistration]_vars

\* The life of a tournament of at most BracketBots participants, with a
\* client that asks for its bracket
CreateSmall ==
    \E format \in RequestFormats, game_type \in RequestGameTypes :
        CreateTournament(format, game_type, BracketBots)

NextBracket ==
    \/ CreateSmall
    \/ Join
    \/ StartTournament
    \/ GetBracket
    \/ LoopPoll
    \/ LoopAdvance
    \/ LoopAdvanceFails
    \/ LoopExecuteGame
    \/ LoopSleep

SpecBracket == Init /\ [][NextBracket]_vars

\* A round-robin tournament of a registered engine that CapBots bots have
\* joined, from its start on, with execute_game taken move by move
InitMoveCap ==
    /\ rps_game = NoGame
    /\ \E game_type \in {"rps", "custom"} :
           tournament = [status |-> "registration_open", format |-> "round_robin",
                         game_type |-> game_type, max_participants |-> NoMax]
    /\ participants = [i \in 1..CapBots |-> NewParticipant(i)]
    /\ games = <<>>
    /\ loop = IdleLoop
    /\ ret = [op |-> "join", result |-> "ok"]
    /\ calls = NoCalls

NextMoveCap ==
    \/ StartTournament
    \/ LoopPoll
    \/ LoopAdvance
    \/ LoopAdvanceFails
    \/ ExecuteBegin
    \/ ExecuteMove
    \/ ExecuteEnd
    \/ LoopSleep

SpecMoveCap == InitMoveCap /\ [][NextMoveCap]_vars

\* A tournament that RaceBots bots have joined and that RaceCalls workers
\* are asked to start at the same time; the tasks they add are not run
InitStartRace ==
    /\ rps_game = NoGame
    /\ \E format \in {"single_elimination", "round_robin"} :
          tournament = [status |-> "registration_open", format |-> format,
                        game_type |-> "custom", max_participants |-> NoMax]
    /\ participants = [i \in 1..RaceBots |-> NewParticipant(i)]
    /\ games = <<>>
    /\ loop = IdleLoop
    /\ ret = [op |-> "join", result |-> "ok"]
    /\ calls = [c \in Workers |-> IdleCall]

StartChecks == \E c \in Workers : StartCheck(c)

StartCommits == \E c \in Workers : StartCommit(c)

NextStartRace ==
    \/ StartChecks
    \/ StartCommits

SpecStartRace == InitStartRace /\ [][NextStartRace]_vars

\* A single-elimination tournament that RaceBots bots have joined, started
\* once and run by its task, while RaceCalls workers are asked to advance it
InitAdvanceRace ==
    /\ rps_game = NoGame
    /\ tournament = [status |-> "registration_open",
                     format |-> "single_elimination",
                     game_type |-> "custom", max_participants |-> NoMax]
    /\ participants = [i \in 1..RaceBots |-> NewParticipant(i)]
    /\ games = <<>>
    /\ loop = IdleLoop
    /\ ret = [op |-> "join", result |-> "ok"]
    /\ calls = [c \in Workers |-> IdleCall]

AdvanceChecks == \E c \in Workers : AdvanceCheck(c)

AdvanceDecides == \E c \in Workers : AdvanceDecide(c)

AdvanceSchedules == \E c \in Workers : AdvanceSchedule(c)

NextAdvanceRace ==
    \/ StartTournament
    \/ AdvanceChecks
    \/ AdvanceDecides
    \/ AdvanceSchedules
    \/ LoopPoll
    \/ LoopAdvance
    \/ LoopAdvanceFails
    \/ LoopExecuteGame
    \/ LoopSleep

SpecAdvanceRace == InitAdvanceRace /\ [][NextAdvanceRace]_vars

\* A single-elimination tournament of a registered engine that ByeBots bots
\* have joined, from its start on: two of its rounds have a bye.
InitBye ==
    /\ rps_game = NoGame
    /\ tournament = [status |-> "registration_open", format |-> "single_elimination",
                     game_type |-> "custom", max_participants |-> NoMax]
    /\ participants = [i \in 1..ByeBots |-> NewParticipant(i)]
    /\ games = <<>>
    /\ loop = IdleLoop
    /\ ret = [op |-> "join", result |-> "ok"]
    /\ calls = NoCalls

NextBye ==
    \/ StartTournament
    \/ LoopPoll
    \/ LoopAdvance
    \/ LoopAdvanceFails
    \/ LoopExecuteGame
    \/ LoopSleep

SpecBye == InitBye /\ [][NextBye]_vars

\* Single-elimination tournaments of every size from 2 to ByeBots, played
\* to the end by the scheduling task.
InitRounds ==
    /\ rps_game = NoGame
    /\ tournament = [status |-> "registration_open", format |-> "single_elimination",
                     game_type |-> "custom", max_participants |-> NoMax]
    /\ \E n \in 2..ByeBots : participants = [i \in 1..n |-> NewParticipant(i)]
    /\ games = <<>>
    /\ loop = IdleLoop
    /\ ret = [op |-> "join", result |-> "ok"]
    /\ calls = NoCalls

SpecRounds == InitRounds /\ [][NextBye]_vars

\* The reference engine on its own: games of 0 to EngineRounds rounds
Constructs ==
    \E players \in PlayerLists, total_rounds \in 0..EngineRounds :
        Construct(players, total_rounds)

ApplyMoves == \E player \in Movers, action \in MoveActions :
                  ApplyMove(player, action)

NextEngine ==
    \/ Constructs
    \/ ApplyMoves

SpecEngine == Init /\ [][NextEngine]_vars

\* The two engines side by side: a reference game of a single round, and
\* the table engine asked about any pair of choices
ConstructsSingleRound ==
    \E players \in PlayerLists : Construct(players, DefaultTotalRounds)

PlaysGameString ==
    \E choice1 \in RPSChoice, choice2 \in RPSChoice :
        PlayGameString(choice1, choice2)

NextBothEngines ==
    \/ ConstructsSingleRound
    \/ ApplyMoves
    \/ PlaysGameString

SpecBothEngines == Init /\ [][NextBothEngines]_vars

\* A started tournament whose games are executed by the scheduling task and
\* by a second caller of execute_game.
InitReplay ==
    /\ rps_game = NoGame
    /\ \E format \in {"single_elimination", "round_robin"} :
           tournament = [status |-> "registration_open", format |-> format,
                         game_type |-> "custom", max_participants |-> NoMax]
    /\ participants = [i \in 1..ReplayBots |-> NewParticipant(i)]
    /\ games = <<>>
    /\ loop = IdleLoop
    /\ ret = [op |-> "join", result |-> "ok"]
    /\ calls = NoCalls

ExecuteGameCalls == \E g \in (DOMAIN games) \cup {NoSuchGame} : ExecuteGameCall(g)

NextReplay ==
    \/ StartTournament
    \/ LoopPoll
    \/ LoopAdvance
    \/ LoopAdvanceFails
    \/ LoopExecuteGame
    \/ LoopSleep
    \/ ExecuteGameCalls

SpecReplay == InitReplay /\ [][NextReplay]_vars

----------------------------------------------------------------------------
(* Properties *)

Terminal(game) == game.status \in {"completed", "cancelled"}

Started == tournament.status \in {"in_progress", "completed", "cancelled"}

\* a step that is a call of start by a client (the task never runs before a
\* successful start and never touches ret)
IsStartCall == ret'.op = "start" /\ (loop' = loop \/ loop.pc = "idle")

\* a step that is a call of advance by a client
IsAdvanceCall == ret'.op = "advance" /\ loop' = loop

\* a pass of the for loop of the scheduling task
IsLoopExecute == loop.pc = "execute" /\ loop' # loop

AllDecisive ==
    \A g \in DOMAIN games : games[g].status = "completed" /\ games[g].winner_id # None

\* C1: the status of a tournament only moves registration_open ->
\* in_progress -> completed or cancelled: every step leaves it as it is or
\* takes one of these moves, and completed and cancelled are never left.
StatusMoves ==
    {<<"absent", "registration_open">>, <<"registration_open", "in_progress">>,
     <<"in_progress", "completed">>, <<"in_progress", "cancelled">>}

C1_StatusMonotonic ==
    [][\/ tournament'.status = tournament.status
       \/ <<tournament.status, tournament'.status>> \in StatusMoves]_vars

C1_Witness ==
    /\ tournament.status = "completed"
    /\ loop.pc = "done"
    /\ ret = [op |-> "start", result |-> "InvalidState"]

\* C2: a completed single-elimination tournament of N participants whose
\* matches all completed with a winner has exactly N-1 matches, one
\* participant that is not eliminated and N-1 that are.
C2_SingleEliminationCount ==
    (/\ tournament.format = "single_elimination"
     /\ tournament.status = "completed"
     /\ AllDecisive)
    => /\ Len(games) = Len(participants) - 1
       /\ Cardinality(ActiveParticipants(participants)) = 1

C2_Witness ==
    /\ tournament.format = "single_elimination"
    /\ tournament.status = "completed"
    /\ AllDecisive
    /\ Len(participants) = 3
    /\ Len(games) = 2

\* C6: advance called on a tournament that is registration_open, completed
\* or cancelled, or that has a match waiting or in progress, returns false
\* and changes nothing; and whenever matches are added to existing ones,
\* every existing match is terminal.
C6_AdvanceNoOp ==
    [][/\ (/\ IsAdvanceCall
           /\ \/ tournament.status \in {"registration_open", "completed", "cancelled"}
              \/ \E g \in DOMAIN games :
                    games[g].status \in {"waiting", "in_progress"})
          => /\ ret'.result = "false"
             /\ UNCHANGED <<tournament, participants, games>>
       /\ (games # <<>> /\ Len(games') > Len(games))
          => \A g \in DOMAIN games : Terminal(games[g])]_vars

C6_Witness ==
    /\ tournament.status = "in_progress"
    /\ ret = [op |-> "advance", result |-> "false"]
    /\ loop.pc = "poll"
    /\ Len(games) >= 2
    /\ \A g \in DOMAIN games : games[g].status = "waiting"

\* C7: a pass of the for loop that does not complete its match cancels it,
\* changes neither the tournament nor any participant nor any other match,
\* and leaves the task running on the rest of its list; so when the task
\* has gone through its list no match is waiting.
C7_MatchFailureContained ==
    [][/\ (IsLoopExecute /\ games'[Head(loop.waiting_games)].status # "completed")
          => /\ games' = [games EXCEPT ![Head(loop.waiting_games)].status = "cancelled"]
             /\ UNCHANGED <<tournament, participants>>
             /\ loop'.waiting_games = Tail(loop.waiting_games)
             /\ loop'.pc = IF Tail(loop.waiting_games) = <<>>
                           THEN "sleep" ELSE "execute"
       /\ (IsLoopExecute /\ loop'.pc = "sleep")
          => \A g \in DOMAIN games' : games'[g].status # "waiting"]_vars

C7_Witness ==
    /\ tournament.status = "in_progress"
    /\ \E g, h \in DOMAIN games :
          /\ g < h
          /\ games[g].round_number = games[h].round_number
          /\ games[g].status = "cancelled"
          /\ games[h].status = "completed"
          /\ games[h].winner_id # None

SeedsBijection ==
    {participants[i].seed : i \in DOMAIN participants} = 1..Len(participants)

\* C9: once the tournament has started the seeds are a bijection onto 1..N;
\* no step changes a seed that is set or the number of participants of a
\* started tournament; and start called on a started tournament returns
\* InvalidState and changes no participant.
C9_SeedsOnce ==
    [][/\ Started' => SeedsBijection'
       /\ Started
          => /\ Len(participants') = Len(participants)
             /\ \A i \in DOMAIN participants :
                   participants'[i].seed = participants[i].seed
       /\ (IsStartCall /\ Started)
          => /\ ret'.result = "InvalidState"
             /\ UNCHANGED <<tournament, participants, games, loop>>]_vars

C9_Witness ==
    /\ tournament.status = "in_progress"
    /\ ret = [op |-> "start", result |-> "InvalidState"]
    /\ Len(participants) = 3
    /\ SeedsBijection
    /\ \E g \in DOMAIN games : games[g].status = "completed"

\* C10: start called on a tournament that is not registration_open, or that
\* has fewer than 2 participants, returns an error and changes nothing.
C10_StartRejected ==
    [][(/\ IsStartCall
        /\ \/ tournament.status # "registration_open"
           \/ Len(participants) < 2)
       => /\ ret'.result \in {"NotFound", "InvalidState"}
          /\ UNCHANGED <<tournament, participants, games, loop>>]_vars

C10_Witness ==
    /\ tournament.status = "registration_open"
    /\ Len(participants) = 1
    /\ ret = [op |-> "start", result |-> "InvalidState"]
    /\ games = <<>>
    /\ participants[1].seed = None

\* C3: in a completed single-elimination tournament whose matches all
\* completed with a winner, the participant with final_rank 1 is the one
\* that is not eliminated.
C3_RankOneIsSurvivor ==
    (/\ tournament.format = "single_elimination"
     /\ tournament.status = "completed"
     /\ AllDecisive)
    => \A i \in DOMAIN participants :
          participants[i].final_rank = 1 => ~participants[i].eliminated

\* C4: when the task asks to advance an in_progress tournament whose matches
\* are all terminal, one of them cancelled, and advance does not raise, the
\* next round is scheduled or the tournament is completed.
C4_CancelledMatchDoesNotBlock ==
    [][(/\ loop.pc = "advance"
        /\ loop' # loop
        /\ loop'.pc # "failed"
        /\ tournament.status = "in_progress"
        /\ \A g \in DOMAIN games : Terminal(games[g])
        /\ \E g \in DOMAIN games : games[g].status = "cancelled")
       => \/ Len(games') > Len(games)
          \/ tournament'.status = "completed"]_vars

\* C5: the scheduling task has ended only if the tournament is completed or
\* cancelled.
C5_TaskEndsOnlyWhenSettled ==
    loop.pc \in {"done", "failed"}
    => tournament.status \in {"completed", "cancelled"}

----------------------------------------------------------------------------
(* Registration and creation *)

\* C11: a join of a tournament that has started returns InvalidState, a
\* join by an unknown bot returns NotFound, a join by a bot that is already
\* registered returns AlreadyRegistered, and a join that fails changes
\* nothing; so no bot is registered twice, every participant is a known
\* bot, and no participant is added once the tournament has started.
C11_JoinRejected ==
    [][/\ \A b \in JoinInputs :
             JoinTournament(b) =>
                /\ Started => ret'.result = "InvalidState"
                /\ (tournament.status = "registration_open" /\ b \notin BotIds)
                   => ret'.result = "NotFound"
                /\ (/\ tournament.status = "registration_open"
                    /\ b \in BotIds
                    /\ \E i \in DOMAIN participants : participants[i].bot_id = b)
                   => ret'.result = "AlreadyRegistered"
                /\ ret'.result # "ok"
                   => UNCHANGED <<tournament, participants, games, loop>>
       /\ \A i, j \in DOMAIN participants' :
             i # j => participants'[i].bot_id # participants'[j].bot_id
       /\ \A i \in DOMAIN participants' : participants'[i].bot_id \in BotIds
       /\ Started => Len(participants') = Len(participants)]_vars

C11_Witness ==
    /\ tournament.status = "registration_open"
    /\ ret = [op |-> "join", result |-> "AlreadyRegistered"]
    /\ Len(participants) = 2

\* C12: a tournament created with max_participants m never has more than m
\* participants.
C12_NeverOverMax ==
    tournament.max_participants # NoMax
    => Len(participants) <= tournament.max_participants

\* C13: every tournament that exists has the format single_elimination or
\* round_robin and a game type that is a key of the registry.
C13_RecognizedConfiguration ==
    tournament.status # "absent"
    => /\ tournament.format \in {"single_elimination", "round_robin"}
       /\ tournament.game_type \in game_registry

\* C14: a round-robin tournament of N participants that has started has
\* exactly N*(N-1)/2 matches, one for every unordered pair of participants,
\* at every moment from its start on (advance adds none).
C14_RoundRobinPairs ==
    (tournament.format = "round_robin" /\ Started)
    => /\ 2 * Len(games) = Len(participants) * (Len(participants) - 1)
       /\ \A i, j \in DOMAIN participants :
             i < j => Cardinality({g \in DOMAIN games :
                                     Range(games[g].players) =
                                        {participants[i].bot_id,
                                         participants[j].bot_id}}) = 1

C14_Witness ==
    /\ tournament.format = "round_robin"
    /\ tournament.status = "completed"
    /\ Len(participants) = 3
    /\ Len(games) = 3
    /\ loop.pc = "done"

\* C17: a tournament that is registration_open has no match; a step that
\* adds matches is a successful start of a registration_open tournament or
\* an advance of an in_progress tournament.
C17_NoMatchesBeforeStart ==
    [][/\ tournament'.status = "registration_open" => games' = <<>>
       /\ Len(games') > Len(games)
          => \/ /\ tournament.status = "registration_open"
                /\ tournament'.status = "in_progress"
                /\ ret' = [op |-> "start", result |-> "ok"]
             \/ /\ tournament.status = "in_progress"
                /\ tournament'.status = "in_progress"
                /\ \/ ret' = [op |-> "advance", result |-> "true"]
                   \/ loop.pc = "advance" /\ loop'.pc = "poll"]_vars

C17_Witness ==
    /\ tournament.status = "registration_open"
    /\ Len(participants) = 3
    /\ ret = [op |-> "start", result |-> "NotImplemented"]
    /\ games = <<>>

----------------------------------------------------------------------------
(* The bracket projection *)

\* a step that is a call of get_bracket by a client
IsBracketCall == ret'.op = "bracket" /\ loop' = loop

C20_BracketOnlyNotFound ==
    (ret.op = "bracket" /\ tournament.status # "absent")
    => ret.result.error = "none"

----------------------------------------------------------------------------
(* The move cap *)

\* C18: while execute_game plays a match it has applied at most max_moves
\* moves, every pass of its loop applies one more move or leaves the loop,
\* and with max_moves moves applied the next step leaves the loop and gives
\* the match a terminal status.
C18_MoveCap ==
    [][(loop.pc = "playing" /\ loop' # loop)
       => /\ loop.move_count <= max_moves
          /\ loop'.pc = "playing" => loop'.move_count = loop.move_count + 1
          /\ loop'.pc # "playing"
             => Terminal(games'[Head(loop.waiting_games)])
          /\ loop.move_count = max_moves => loop'.pc # "playing"]_vars

C18_Witness ==
    /\ loop.pc = "playing"
    /\ ~ReferenceEngine
    /\ loop.game_instance.over_after = Never
    /\ loop.game_instance.stuck_after = Never
    /\ loop.move_count = max_moves
    /\ games[Head(loop.waiting_games)].status = "in_progress"

----------------------------------------------------------------------------
(* Calls of several workers *)

\* no participant is in two matches of the same round
OneMatchPerRound ==
    \A g, h \in DOMAIN games :
        (g # h /\ games[g].round_number = games[h].round_number)
        => Range(games[g].players) \cap Range(games[h].players) = {}

\* C15: of the start calls in flight for one tournament at most one
\* succeeds, the seeds of a started tournament are a bijection onto 1..N,
\* and in single elimination no participant is in two matches of round 1.
C15_StartOnce ==
    /\ Cardinality({c \in DOMAIN calls : calls[c].result = "ok"}) <= 1
    /\ Started => SeedsBijection
    /\ tournament.format = "single_elimination" => OneMatchPerRound

\* C16: of the advance calls in flight after a round has finished at most
\* one schedules a round, and no participant is in two matches of the same
\* round.
C16_AdvanceOnce ==
    /\ \A c, d \in DOMAIN calls :
          (c # d /\ calls[c].result = "true" /\ calls[d].result = "true")
          => calls[c].seen # calls[d].seen
    /\ OneMatchPerRound

----------------------------------------------------------------------------
(* Properties of the reference engine *)

\* rock beats scissors, scissors beats paper, paper beats rock
BeatsPairs ==
    {<<"rock", "scissors">>, <<"scissors", "paper">>, <<"paper", "rock">>}

Constructed == rps_game # NoGame

\* C21: in a single-round game between two players, whatever pair of
\* choices c1 (first player) and c2 (second player) was applied and in
\* whichever order, the winner is the first player if c1 beats c2, the
\* second if c2 beats c1, and nobody if c1 = c2.
C21_RoundWinner ==
    \A c1 \in RPSChoice, c2 \in RPSChoice :
        (/\ Constructed
         /\ rps_game.total_rounds = 1
         /\ rps_game.players[1] # rps_game.players[2]
         /\ Len(rps_game.moves) = 2
         /\ Range(rps_game.moves) = {<<rps_game.players[1], c1>>,
                                     <<rps_game.players[2], c2>>})
        => get_winner(rps_game) =
               IF <<c1, c2>> \in BeatsPairs THEN rps_game.players[1]
               ELSE IF <<c2, c1>> \in BeatsPairs THEN rps_game.players[2]
               ELSE None

\* the second player of the list moved first and won with rock
C21_Witness ==
    /\ Constructed
    /\ rps_game.total_rounds = 1
    /\ rps_game.players = <<2, 1>>
    /\ rps_game.moves = <<<<1, "rock">>, <<2, "scissors">>>>
    /\ get_winner(rps_game) = 1

\* the cases of rejection, read off the state before the call
NotAPlayer(player) == player \notin {rps_game.players[1], rps_game.players[2]}

AlreadyMoved(player) ==
    \E k \in DOMAIN rps_game.moves_this_round :
        rps_game.moves_this_round[k][1] = player

AllRoundsResolved == Len(rps_game.rounds) >= rps_game.total_rounds

\* a call of apply_move
IsApplyMove == Constructed /\ ret'.op = "apply_move"

\* the move of an accepted call is the one it added to the move log
AcceptedMove == rps_game'.moves[Len(rps_game'.moves)]

\* C22 (amended): apply_move raises and leaves scores, round number, pending
\* moves, round history and move log as they were when the mover is not a
\* player, has already moved this round, the game is terminal, or the action
\* put in lower case is not rock, paper or scissors: a call that raises
\* changes nothing, and a call that is accepted is in none of these cases;
\* is_valid_move is false in exactly those cases.
C22_RejectsInvalidMove ==
    [][IsApplyMove =>
          /\ \A player \in Movers, action \in MoveActions :
                is_valid_move(rps_game, player, action)
                    <=> ~(\/ NotAPlayer(player)
                          \/ AlreadyMoved(player)
                          \/ AllRoundsResolved
                          \/ Lower(action) \notin RPSChoice)
          /\ ret'.result = "ValueError" => rps_game' = rps_game
          /\ ret'.result = "ok" =>
                /\ Len(rps_game'.moves) = Len(rps_game.moves) + 1
                /\ ~NotAPlayer(AcceptedMove[1])
                /\ ~AlreadyMoved(AcceptedMove[1])
                /\ ~AllRoundsResolved
                /\ Lower(AcceptedMove[2]) \in RPSChoice]_vars

\* "ROCK" was accepted and stored as rock; the call after it was rejected
C22_Witness ==
    /\ Constructed
    /\ rps_game.moves = <<<<1, "ROCK">>>>
    /\ rps_game.moves_this_round = <<<<1, "rock">>>>
    /\ ret = [op |-> "apply_move", result |-> "ValueError"]

\* C22 as stated: the action is rejected when it is not one of the strings
\* rock, paper, scissors, and is_valid_move is false in exactly the four
\* cases.
C22_RejectsOtherStrings ==
    [][IsApplyMove =>
          /\ \A player \in Movers, action \in MoveActions :
                is_valid_move(rps_game, player, action)
                    <=> ~(\/ NotAPlayer(player)
                          \/ AlreadyMoved(player)
                          \/ AllRoundsResolved
                          \/ action \notin RPSChoice)
          /\ ret'.result = "ValueError" => rps_game' = rps_game
          /\ ret'.result = "ok" =>
                /\ Len(rps_game'.moves) = Len(rps_game.moves) + 1
                /\ ~NotAPlayer(AcceptedMove[1])
                /\ ~AlreadyMoved(AcceptedMove[1])
                /\ ~AllRoundsResolved
                /\ AcceptedMove[2] \in RPSChoice]_vars

\* rounds of the history that the player at position i of players won
RoundsWon(i) ==
    Cardinality({k \in DOMAIN rps_game.rounds :
                    rps_game.rounds[k].winner = rps_game.players[i]})

\* C23: a game of R rounds is terminal exactly when round_number > R, which
\* is when R rounds have resolved and 2R moves were accepted, never before
\* and never after more; get_winner is None while the game is not terminal,
\* and once it is terminal it is the player with the strictly higher
\* cumulative score, None on equal scores.
C23_TerminalAfterAllRounds ==
    Constructed =>
        LET R == rps_game.total_rounds
            over == is_game_over(rps_game)
        IN  /\ over <=> rps_game.round_number > R
            /\ over <=> (Len(rps_game.rounds) = R /\ Len(rps_game.moves) = 2 * R)
            /\ Len(rps_game.rounds) <= R
            /\ rps_game.players[1] # rps_game.players[2] =>
                   \A i \in 1..2 : rps_game.scores[i] = RoundsWon(i)
            /\ ~over => get_winner(rps_game) = None
            /\ over => get_winner(rps_game) =
                   IF rps_game.scores[1] > rps_game.scores[2]
                   THEN rps_game.players[1]
                   ELSE IF rps_game.scores[2] > rps_game.scores[1]
                   THEN rps_game.players[2]
                   ELSE None

\* a game of two rounds ended 0:1 after a drawn round
C23_Witness ==
    /\ Constructed
    /\ rps_game.total_rounds = 2
    /\ is_game_over(rps_game)
    /\ rps_game.scores = <<0, 1>>
    /\ rps_game.rounds[1].winner = None
    /\ get_winner(rps_game) = rps_game.players[2]

\* get_valid_moves answers all three choices to a player who has not moved
\* in the current round of a game that is not terminal, and nothing otherwise
ValidMovesAsDescribed ==
    \A player \in Movers \cup {None} :
        get_valid_moves(rps_game, player) =
            IF /\ ~NotAPlayer(player)
               /\ ~is_game_over(rps_game)
               /\ ~AlreadyMoved(player)
            THEN RPSChoice ELSE {}

\* C24: in every state of a game get_valid_moves(p) is {rock, paper,
\* scissors} exactly when p is a player, the game is not terminal and p has
\* not moved in the current round, and empty otherwise; so in every state
\* that is not terminal at least one player has a valid move.
C24_SomeoneCanMove ==
    Constructed =>
        /\ ValidMovesAsDescribed
        /\ ~is_game_over(rps_game) =>
               \E i \in 1..2 :
                   get_valid_moves(rps_game, rps_game.players[i]) # {}

----------------------------------------------------------------------------
(* Properties of matches and their statistics *)

\* C25: when execute_game marks a match of the reference engine completed,
\* the engine is terminal: it has resolved all total_rounds rounds with
\* 2 * total_rounds applied moves, fewer than the cap, and the recorded
\* winner is the engine's get_winner().
C25_PlayedToTheEnd ==
    [][(/\ loop.pc = "playing"
        /\ loop'.pc # "playing"
        /\ ReferenceEngine
        /\ games'[Head(loop.waiting_games)].status = "completed")
       => LET game_instance == loop.game_instance
          IN  /\ is_game_over(game_instance)
              /\ Len(game_instance.rounds) = game_instance.total_rounds
              /\ Len(game_instance.moves) = 2 * game_instance.total_rounds
              /\ loop.move_count = 2 * game_instance.total_rounds
              /\ loop.move_count < max_moves
              /\ games'[Head(loop.waiting_games)].winner_id =
                     get_winner(game_instance)]_vars

\* the step of the task that completes the match at the head of its list
CompletesMatch ==
    /\ IsLoopExecute
    /\ games'[Head(loop.waiting_games)].status = "completed"

CompletedMatch == games'[Head(loop.waiting_games)]

\* the rows of the winner and the loser after a match that has a winner
WinnerAndLoserCredited ==
    \A i \in DOMAIN participants :
        LET old == participants[i]
            new == participants'[i]
        IN  IF old.bot_id \notin Range(CompletedMatch.players) THEN new = old
            ELSE /\ new.games_played = old.games_played + 1
                 /\ IF CompletedMatch.winner_id = old.bot_id
                    THEN new.wins = old.wins + 1 /\ new.score = old.score + 3
                    ELSE new.losses = old.losses + 1

\* the rows of the two participants after a match without a winner
BothCreditedWithDraw ==
    \A i \in DOMAIN participants :
        LET old == participants[i]
            new == participants'[i]
        IN  IF old.bot_id \notin Range(CompletedMatch.players) THEN new = old
            ELSE /\ new.games_played = old.games_played + 1
                 /\ new.draws = old.draws + 1
                 /\ new.score = old.score + 1

\* C26: when a match completes, in either format: with a winner, the winner
\* gets wins + 1 and score + 3 and the loser losses + 1; without a winner
\* both participants get draws + 1 and score + 1; both get games_played + 1
\* and no participant outside the match changes.
C26_StatsOnCompletion ==
    [][CompletesMatch =>
          IF CompletedMatch.winner_id # None THEN WinnerAndLoserCredited
          ELSE BothCreditedWithDraw]_vars

\* C27: in single elimination, when a match completes without a winner,
\* exactly one of its two participants becomes eliminated and the other
\* stays in and is credited with a win.
C27_TieEliminatesOne ==
    [][(/\ CompletesMatch
        /\ tournament.format = "single_elimination"
        /\ CompletedMatch.winner_id = None)
       => \E out \in 1..2 :
             LET loser == ParticipantIndex(participants,
                                           CompletedMatch.players[out])
                 other == ParticipantIndex(participants,
                                           CompletedMatch.players[3 - out])
             IN  /\ participants'[loser].eliminated
                 /\ ~participants'[other].eliminated
                 /\ participants'[other].wins = participants[other].wins + 1]_vars

\* C28: in single elimination the loser of a completed match that has a
\* winner is marked eliminated and the winner is not; in round robin no
\* participant is ever marked eliminated; and eliminated never goes from
\* true back to false.
C28_Elimination ==
    [][/\ (/\ CompletesMatch
           /\ tournament.format = "single_elimination"
           /\ CompletedMatch.winner_id # None)
          => \A k \in 1..2 :
                LET bot_id == CompletedMatch.players[k]
                    i == ParticipantIndex(participants, bot_id)
                IN  participants'[i].eliminated
                        <=> bot_id # CompletedMatch.winner_id
       /\ tournament'.format = "round_robin"
          => \A i \in DOMAIN participants' : ~participants'[i].eliminated
       /\ \A i \in DOMAIN participants :
             participants[i].eliminated
                 => i \in DOMAIN participants' /\ participants'[i].eliminated]_vars

\* a match of single elimination has a winner, who is still in, and a loser,
\* who is eliminated
C28_Witness ==
    /\ tournament.format = "single_elimination"
    /\ \E g \in DOMAIN games :
          /\ games[g].status = "completed"
          /\ games[g].winner_id = games[g].players[2]
          /\ participants[ParticipantIndex(participants,
                                           games[g].players[1])].eliminated
          /\ ~participants[ParticipantIndex(participants,
                                            games[g].players[2])].eliminated

----------------------------------------------------------------------------
(* Properties of the rounds of single elimination *)

\* a step that generates a round of single elimination
GeneratesRound ==
    /\ tournament'.format = "single_elimination"
    /\ Len(games') > Len(games)

NewMatches == (Len(games) + 1)..Len(games')

\* the participants that are not eliminated when the round is generated
StillIn == {i \in DOMAIN participants' : ~participants'[i].eliminated}

\* the place of a participant among them by seed, from 1
SeedPosition(i) ==
    1 + Cardinality({j \in StillIn : participants'[j].seed < participants'[i].seed})

AtSeedPosition(k) == CHOOSE i \in StillIn : SeedPosition(i) = k

MatchesOf(i) ==
    {g \in NewMatches : participants'[i].bot_id \in Range(games'[g].players)}

\* C29: every round of single elimination is generated from the participants
\* that are not eliminated, ordered by seed, the match k of the round pairing
\* the participants at places 2k-1 and 2k (2i and 2i+1 counted from 0): each
\* of them is in exactly one match of the round, except the last when their
\* number is odd, and no new match has an eliminated participant.
C29_RoundFromSurvivors ==
    [][GeneratesRound =>
          LET n == Cardinality(StillIn)
          IN  /\ Len(games') - Len(games) = n \div 2
              /\ \A k \in 1..(n \div 2) :
                    games'[Len(games) + k].players =
                        <<participants'[AtSeedPosition(2 * k - 1)].bot_id,
                          participants'[AtSeedPosition(2 * k)].bot_id>>
              /\ \A i \in StillIn :
                    Cardinality(MatchesOf(i)) =
                        IF n % 2 = 1 /\ SeedPosition(i) = n THEN 0 ELSE 1
              /\ \A i \in DOMAIN participants' :
                    participants'[i].eliminated => MatchesOf(i) = {}]_vars

\* a second round exists and an eliminated participant is in none of its
\* matches
C29_Witness ==
    /\ tournament.format = "single_elimination"
    /\ \E g \in DOMAIN games : games[g].round_number = 2
    /\ \E i \in DOMAIN participants :
          /\ participants[i].eliminated
          /\ \A g \in DOMAIN games :
                games[g].round_number = 2
                    => participants[i].bot_id \notin Range(games[g].players)

\* wins, losses, draws, games_played, score and eliminated of a row
Stats(p) == <<p.wins, p.losses, p.draws, p.games_played, p.score, p.eliminated>>

\* C30: when a round of single elimination is generated from an odd number
\* of participants, the last of them by seed gets a bye: no match is created
\* for them, their wins and games_played each go up by exactly 1, and the
\* stats of no other participant change.
C30_Bye ==
    [][(GeneratesRound /\ Cardinality(StillIn) % 2 = 1) =>
          LET bye == AtSeedPosition(Cardinality(StillIn))
          IN  /\ MatchesOf(bye) = {}
              /\ participants'[bye].wins = participants[bye].wins + 1
              /\ participants'[bye].games_played =
                     participants[bye].games_played + 1
              /\ \A i \in DOMAIN participants :
                    i # bye => Stats(participants'[i]) = Stats(participants[i])]_vars

\* three participants are left for the second round, and the last of them by
\* seed has had the bye of both rounds: two wins, two games, no match
C30_Witness ==
    /\ tournament.format = "single_elimination"
    /\ Cardinality(ActiveParticipants(participants)) = 3
    /\ \E g \in DOMAIN games : games[g].round_number = 2
    /\ \E i \in ActiveParticipants(participants) :
          /\ participants[i].wins = 2
          /\ participants[i].games_played = 2
          /\ \A g \in DOMAIN games :
                games[g].round_number = 2
                    => participants[i].bot_id \notin Range(games[g].players)

----------------------------------------------------------------------------
(* Properties of schedules, ranks and statistics *)

\* C31: in a tournament of either format two matches with the same round
\* number never share a participant; in particular the matches of a round
\* robin of 3 or more participants are spread over several round numbers.
C31_RoundsDisjoint ==
    /\ \A g \in DOMAIN games, h \in DOMAIN games :
          (g # h /\ games[g].round_number = games[h].round_number)
              => Range(games[g].players) \cap Range(games[h].players) = {}
    /\ (tournament.format = "round_robin" /\ Len(games) >= 3)
          => \E g \in DOMAIN games, h \in DOMAIN games :
                games[g].round_number # games[h].round_number

\* (score, wins, -games_played) of a is lexicographically >= that of b
KeyAtLeast(a, b) ==
    \/ a.score > b.score
    \/ a.score = b.score /\ a.wins > b.wins
    \/ a.score = b.score /\ a.wins = b.wins /\ -a.games_played >= -b.games_played

\* C32: in a completed tournament the final ranks are a bijection from the
\* participants onto 1..N, and whenever final_rank(a) < final_rank(b) the
\* key (score, wins, -games_played) of a is at least that of b.
C32_RanksOrdered ==
    tournament.status = "completed" =>
        /\ {participants[i].final_rank : i \in DOMAIN participants}
               = 1..Len(participants)
        /\ \A i \in DOMAIN participants, j \in DOMAIN participants :
              /\ i # j => participants[i].final_rank # participants[j].final_rank
              /\ participants[i].final_rank < participants[j].final_rank
                    => KeyAtLeast(participants[i], participants[j])

\* three participants are ranked, the first with a higher score than the
\* second, the second with the score of the third and more wins
C32_Witness ==
    /\ tournament.status = "completed"
    /\ Len(participants) = 3
    /\ \E i \in 1..3, j \in 1..3, k \in 1..3 :
          /\ participants[i].final_rank = 1
          /\ participants[j].final_rank = 2
          /\ participants[k].final_rank = 3
          /\ participants[i].score > participants[j].score
          /\ participants[j].score = participants[k].score
          /\ participants[j].wins > participants[k].wins

\* C33: final_rank is unset for every participant while the tournament is
\* registration_open, in_progress or cancelled; a step changes a final_rank
\* only when it takes the tournament from in_progress to completed, so the
\* ranks are assigned once and stay, whatever is called afterwards.
C33_RankSetOnce ==
    [][/\ tournament'.status # "completed"
          => \A i \in DOMAIN participants' : participants'[i].final_rank = None
       /\ (\E i \in DOMAIN participants' :
              \/ i \notin DOMAIN participants /\ participants'[i].final_rank # None
              \/ i \in DOMAIN participants
                 /\ participants'[i].final_rank # participants[i].final_rank)
          => /\ tournament.status = "in_progress"
             /\ tournament'.status = "completed"
       /\ tournament.status = "completed"
          => /\ Len(participants') = Len(participants)
             /\ \A i \in DOMAIN participants :
                   participants'[i].final_rank = participants[i].final_rank]_vars

\* the tournament is completed and ranked, the scheduling task has ended and
\* advance has been called
C33_Witness ==
    /\ tournament.status = "completed"
    /\ loop.pc = "done"
    /\ ret = [op |-> "advance", result |-> "false"]
    /\ Len(participants) = 3
    /\ \A i \in DOMAIN participants : participants[i].final_rank \in 1..3

----------------------------------------------------------------------------
(* Properties of the rounds of the reference engine *)

TiedRounds(g) ==
    Cardinality({k \in DOMAIN g.rounds : g.rounds[k].winner = None})

\* at most one move is pending, the history has round_number - 1 entries,
\* and the scores and the tied rounds add up to round_number - 1
RoundsAddUp(g) ==
    /\ Len(g.moves_this_round) <= 1
    /\ g.round_number - 1 = Len(g.rounds)
    /\ g.scores[1] + g.scores[2] + TiedRounds(g) = g.round_number - 1

\* what an accepted move leaves when it is the second of its round
RoundResolved(g, h) ==
    LET entry == h.rounds[Len(h.rounds)]
    IN  /\ h.moves_this_round = <<>>
        /\ h.round_number = g.round_number + 1
        /\ Len(h.rounds) = Len(g.rounds) + 1
        /\ SubSeq(h.rounds, 1, Len(g.rounds)) = g.rounds
        /\ entry.round = g.round_number
        /\ \A k \in 1..2 :
              h.scores[k] = g.scores[k]
                  + (IF entry.winner = g.players[k] THEN 1 ELSE 0)

\* what an accepted move leaves when it is the first of its round
RoundPending(g, h) ==
    /\ Len(h.moves_this_round) = 1
    /\ h.round_number = g.round_number
    /\ h.rounds = g.rounds
    /\ h.scores = g.scores

\* C34: a round resolves exactly when both players have moved, that is with
\* the second accepted move of the round: the pending moves are cleared,
\* round_number goes up by exactly 1, one entry is appended to the round
\* history and the round winner's score goes up by 1, a tie changing no
\* score; the first move of a round does none of this.  Hence in every
\* state at most one move is pending, round_number - 1 is the number of
\* history entries, and score(p1) + score(p2) + tied rounds =
\* round_number - 1.
C34_RoundResolution ==
    [][(rps_game' # NoGame) =>
          /\ RoundsAddUp(rps_game')
          /\ (IsApplyMove /\ ret'.result = "ok") =>
                IF Len(rps_game.moves_this_round) = 1
                THEN RoundResolved(rps_game, rps_game')
                ELSE RoundPending(rps_game, rps_game')]_vars

\* a tied round is in the history with the scores at 0:0, and the first
\* move of round 2 is pending
C34_Witness ==
    /\ Constructed
    /\ rps_game.round_number = 2
    /\ rps_game.rounds[1].winner = None
    /\ rps_game.scores = <<0, 0>>
    /\ Len(rps_game.moves_this_round) = 1

\* ROCK = 0, PAPER = 1, SCISSORS = 2
IntOf(choice) == IF choice = "rock" THEN 0 ELSE IF choice = "paper" THEN 1 ELSE 2

\* C35: for every pair of choices (c1, c2), play_game_string(c1, c2), and
\* play_game on the integers of c1 and c2, name the same winner, or the same
\* draw, as a single-round reference game in which the first player played
\* c1 and the second c2.
C35_EnginesAgree ==
    (/\ Constructed
     /\ rps_game.players[1] # rps_game.players[2]
     /\ is_game_over(rps_game)
     /\ ret.op = "play_game_string"
     /\ ret.choices = rps_game.rounds[1].moves)
    => /\ ret.winner = get_winner(rps_game)
       /\ play_game(rps_game.players[1], rps_game.players[2],
                    IntOf(ret.choices[1]), IntOf(ret.choices[2]))
              = get_winner(rps_game)

\* both engines give the second player of the list the game of rock against
\* paper
C35_Witness ==
    /\ Constructed
    /\ rps_game.players = <<2, 1>>
    /\ is_game_over(rps_game)
    /\ rps_game.rounds[1].moves = <<"rock", "paper">>
    /\ ret.op = "play_game_string"
    /\ ret.choices = <<"rock", "paper">>
    /\ ret.winner = 1
    /\ get_winner(rps_game) = 1

----------------------------------------------------------------------------
(* Properties of the statistics of a participant *)

\* C36: in every state of a tournament every participant has
\* wins + losses + draws = games_played, and wins, losses, draws and score
\* are never negative.
C36_GamesAddUp ==
    \A i \in DOMAIN participants :
        LET p == participants[i]
        IN  /\ p.wins + p.losses + p.draws = p.games_played
            /\ p.wins >= 0
            /\ p.losses >= 0
            /\ p.draws >= 0
            /\ p.score >= 0

\* a participant of single elimination had a bye and then lost a match,
\* and another won a match that was played
C36_Witness ==
    /\ tournament.format = "single_elimination"
    /\ \E i \in DOMAIN participants :
          /\ participants[i].wins = 1
          /\ participants[i].losses = 1
          /\ participants[i].games_played = 2
          /\ participants[i].score = 0
    /\ \E g \in DOMAIN games :
          games[g].status = "completed" /\ games[g].winner_id # None

\* C37: in every state of a tournament of either format the score of each
\* participant is 3 * wins + draws.
C37_ScoreFromWins ==
    \A i \in DOMAIN participants :
        participants[i].score = 3 * participants[i].wins + participants[i].draws

----------------------------------------------------------------------------
(* A match is played at most once *)

GameStatusMoves ==
    {<<"waiting", "in_progress">>, <<"waiting", "completed">>,
     <<"waiting", "cancelled">>, <<"in_progress", "completed">>,
     <<"in_progress", "cancelled">>}

IsExecuteGameCall == ret'.op = "execute_game" /\ <<ret', games', participants'>> # <<ret, games, participants>>

\* the matches whose status this step moves to completed
NewlyCompleted ==
    {g \in DOMAIN games : games[g].status # "completed" /\ games'[g].status = "completed"}

\* C38: a match is played at most once.  In every step: (a) a match that
\* was not waiting is completed by nobody, and a direct execute_game call
\* on it returns the error and changes no match and no participant; (b) the
\* status of every match stays or moves waiting -> in_progress -> completed
\* or to cancelled from waiting or in_progress, never out of completed or
\* cancelled; (c) afterwards a winner_id is found only on a completed
\* match, is one of the two players of the match and is never replaced;
\* (d) participant statistics change by a match result only in a step that
\* completes exactly one match.
C38_PlayedAtMostOnce ==
    [][/\ \A g \in DOMAIN games :
             /\ g \in DOMAIN games'
             /\ \/ games'[g].status = games[g].status
                \/ <<games[g].status, games'[g].status>> \in GameStatusMoves
             /\ games[g].winner_id # None => games'[g].winner_id = games[g].winner_id
       /\ \A g \in DOMAIN games' :
             games'[g].winner_id # None =>
                 /\ games'[g].status = "completed"
                 /\ games'[g].winner_id \in Range(games'[g].players)
       /\ (IsExecuteGameCall /\ ret'.game \in DOMAIN games
               /\ games[ret'.game].status # "waiting")
             => /\ ret'.result = "AlreadyPlayed"
                /\ UNCHANGED <<games, participants, tournament>>
       /\ (Len(games') = Len(games) /\ Len(participants') = Len(participants)
               /\ \E i \in DOMAIN participants :
                      participants'[i].games_played # participants[i].games_played)
             => Cardinality(NewlyCompleted) = 1]_vars

----------------------------------------------------------------------------
(* The number of rounds of a single-elimination tournament *)

\* the highest round number of any match
RoundsPlayed == NextRound(games) - 1

PlayedOut ==
    /\ tournament.format = "single_elimination"
    /\ tournament.status = "completed"
    /\ Len(participants) >= 2
    /\ AllDecisive

\* C39: when a single-elimination tournament of N >= 2 participants in
\* which every match has a winner is completed, the highest round number of
\* its matches equals the total_rounds of its bracket, and that is the
\* least k with 2^k >= N.
C39_RoundsPlayed ==
    PlayedOut =>
        /\ RoundsPlayed = EliminationBracket(participants, games).total_rounds
        /\ 2 ^ RoundsPlayed >= Len(participants)
        /\ 2 ^ (RoundsPlayed - 1) < Len(participants)

\* a played-out tournament of five, with byes in rounds 1 and 2
C39_Witness ==
    /\ PlayedOut
    /\ Len(participants) = 5
    /\ RoundsPlayed = 3

----------------------------------------------------------------------------
(* The order of the two moves of a round *)

\* the action strings is_valid_move accepts as a choice
LegalActions == {action \in MoveActions : Lower(action) \in RPSChoice}

\* the game after both players moved, the first of the two given first
BothMoved(g, first, choice_first, second, choice_second) ==
    apply_move(apply_move(g, first, choice_first), second, choice_second)

SameOutcome(g, h) ==
    /\ g.scores = h.scores
    /\ g.round_number = h.round_number
    /\ g.rounds = h.rounds
    /\ get_winner(g) = get_winner(h)

\* C40: in every reachable game that is not over and has no pending move,
\* for every pair of legal choices, player 1 moving before player 2 and
\* player 2 moving before player 1 give the same scores, round number,
\* round history and winner; with two distinct players either order
\* resolves the round.
C40_MoveOrderIrrelevant ==
    (Constructed /\ rps_game.moves_this_round = <<>> /\ ~is_game_over(rps_game)) =>
        \A choice1, choice2 \in LegalActions :
            LET p1 == rps_game.players[1]
                p2 == rps_game.players[2]
                g12 == BothMoved(rps_game, p1, choice1, p2, choice2)
                g21 == BothMoved(rps_game, p2, choice2, p1, choice1)
            IN  /\ SameOutcome(g12, g21)
                /\ p1 # p2 => g12.round_number = rps_game.round_number + 1

\* a round in which player 2 moved first and player 1 won
C40_Witness ==
    /\ Constructed
    /\ rps_game.players = <<1, 2>>
    /\ Len(rps_game.moves) = 2
    /\ rps_game.moves[1] = <<2, "rock">>
    /\ rps_game.moves[2] = <<1, "paper">>
    /\ rps_game.rounds # <<>>
    /\ rps_game.rounds[1].winner = 1
    /\ rps_game.scores = <<1, 0>>

====
